---- MODULE Spec2Model ----
(***************************************************************************)
(* Backup / retention / rollback lifecycle of the Turbomark operational    *)
(* scripts: the backup daemon (runBackups and its steps) and the rollback  *)
(* tool (listAvailableBackups, executeRollback, quickRollback) acting on   *)
(* one local backup directory and one S3 bucket.                           *)
(*                                                                         *)
(* Time is a logical clock `now`: every event that stamps something (a     *)
(* file name, a file's mtime, an object's LastModified) reads `now` and    *)
(* advances it, so two stamps are never equal.                             *)
(***************************************************************************)
EXTENDS Integers, Sequences, FiniteSets, TLC

\* ------------------------------------------------------------------ bounds
\* Backup runs and rollbacks started in one behaviour.
MaxOps == 3
\* External steps (commands, uploads, downloads, mails) that fail in one behaviour.
MaxFaults == 1
\* Run slots of the daemon (runs in flight at once are not limited by the code).
MaxRuns == 2
\* Keep-count of the 'hourly' cadence (24 in the source, scaled down).
KeepHourly == 2

\* ------------------------------------------------------------- vocabulary
Runs == 1..MaxRuns
\* backupType values used here: one with a retention entry, one without.
Cadences == {"hourly", "startup"}
Kinds == {"postgres", "redis"}
None == "none"

\* a retention policy with an entry for every backupType
RetentionDomain_All == Cadences

\* BACKUP_CONFIG.retention: a partial map from backupType to keep-count.
RetentionDomain == {"hourly"}
Retention(c) == KeepHourly

VARIABLES
    now,        \* logical clock
    ops,        \* backup runs and rollbacks started so far
    faults,     \* external steps that have failed so far
    localDir,   \* ./backups: set of [name, mtime]
    s3Bucket,   \* bucket objects: set of [name, lastModified]
    pc,         \* pc[r]: position of backup run r
    backupType, \* backupType[r]: argument of runBackups
    cur,        \* cur[r]: the backup result being built (pgBackup / redisBackup)
    results,    \* results[r]: the results array of the run
    ret,        \* ret[r]: value returned by runBackups
    mails,      \* mails[r]: notifications delivered by run r
    runCmds,    \* runCmds[r]: external calls run r made, in order, with their outcome
    cwdFiles,   \* files in the rollback tool's working directory (names)
    tmpRdb,     \* whether /tmp/dump.rdb exists
    rpc,        \* position of the rollback tool
    backups,    \* what listAvailableBackups returned to quickRollback
    opts,       \* options of the executeRollback call in progress
    rresults,   \* its results array
    rret,       \* what executeRollback / quickRollback returned or threw
    rmails,     \* notifications delivered by this rollback
    cmdLog,     \* external commands this rollback issued, with their outcome
    named,      \* the file name a backup step built last, with what it was built from
    businessMetrics, \* business-metrics.js: the simulated metrics object
    mticks,     \* updates of the simulated metrics so far
    wall,       \* scheduler: Date.now(), in ms since Sunday 2024-09-01T00:00:00Z
    tz,         \* scheduler: offset of the local time from UTC, in ms
    boot,       \* scheduler: the instant scheduleBackups ran, NotYet before
    due,        \* scheduler: due[t], the instant timer t fires next
    fired,      \* scheduler: the runBackups calls made, as [cadence, at]
    dpc,        \* deployment: position of the pipeline
    dlog,       \* deployment: the steps executed, as [env, step, ok]
    dresults,   \* deployment: the results object of runDeploymentPipeline
    dret,       \* deployment: what the pipeline returned or threw
    dmails      \* deployment: the sendMail calls, as [subject, delivered]

bvars == <<pc, backupType, cur, results, ret, mails, runCmds>>
rvars == <<rpc, backups, opts, rresults, rret, rmails, cmdLog>>
fsvars == <<localDir, s3Bucket, cwdFiles, tmpRdb>>
env == <<now, ops, faults>>
mvars == <<businessMetrics, mticks>>
dvars == <<dpc, dlog, dresults, dret, dmails>>
svars == <<wall, tz, boot, due, fired>>
\* what the backup daemon and the rollback tool leave alone
aside == <<named, mvars, dvars, svars>>
\* what the other programs of the repository leave alone
backupState == <<env, fsvars, bvars, rvars, named>>
vars == <<env, fsvars, bvars, rvars, named, mvars, dvars, svars>>

\* ------------------------------------------------------------ file names
\* a name without its timestamp part
FileName_NoStamp(kind, c, ts, gz) == [kind |-> kind, cadence |-> c, ts |-> 0, gz |-> gz]

\* postgres-<backupType>-<timestamp>.sql[.gz] / redis-<backupType>-<timestamp>.rdb[.gz]
FileName(kind, c, ts, gz) == [kind |-> kind, cadence |-> c, ts |-> ts, gz |-> gz]
NoName == [kind |-> None, cadence |-> None, ts |-> 0, gz |-> FALSE]

\* file.includes(s) for the tokens the code searches a name for.
NameIncludes(name, s) ==
    \/ s = name.kind
    \/ s = name.cadence
    \/ s = ".gz" /\ name.gz
    \/ s = ".sql.gz" /\ name.kind = "postgres" /\ name.gz
    \/ s = ".rdb.gz" /\ name.kind = "redis" /\ name.gz

Names(dir) == {f.name : f \in dir}
Exists(dir, name) == name \in Names(dir)
\* writing a path truncates what was there
WriteFile(dir, name, t) == {f \in dir : f.name # name} \cup {[name |-> name, mtime |-> t]}
Unlink(dir, name) == {f \in dir : f.name # name}
MTime(dir, name) == (CHOOSE f \in dir : f.name = name).mtime

\* gzip <path>: replaces the file by <path>.gz, keeping its mtime
Gzip(dir, name) ==
    LET gzname == [name EXCEPT !.gz = TRUE]
    IN  WriteFile(Unlink(dir, name), gzname, MTime(dir, name))

\* ------------------------------------------------- file names as strings
\* A string is the sequence of its characters.
Postgres == <<"p", "o", "s", "t", "g", "r", "e", "s">>
Redis == <<"r", "e", "d", "i", "s">>
Sql == <<"s", "q", "l">>
Rdb == <<"r", "d", "b">>
GzSuffix == <<".", "g", "z">>
Dash == <<"-">>
Dot == <<".">>

\* the backupType values the daemon passes and the default of runBackups
BackupTypes ==
    {<<"h", "o", "u", "r", "l", "y">>, <<"d", "a", "i", "l", "y">>,
     <<"w", "e", "e", "k", "l", "y">>, <<"m", "o", "n", "t", "h", "l", "y">>,
     <<"s", "t", "a", "r", "t", "u", "p">>, <<"m", "a", "n", "u", "a", "l">>}

\* instants new Date() may return, by their UTC fields
Dates ==
    [year : {2024, 2031}, month : {1, 12}, day : {9, 31}, hour : {0, 23},
     minute : {59}, second : {7}, ms : {0, 7, 999}]

Digits == <<"0", "1", "2", "3", "4", "5", "6", "7", "8", "9">>

RECURSIVE Pad(_, _)
\* the decimal digits of n, zero-padded to width w
Pad(n, w) == IF w = 0 THEN <<>> ELSE Pad(n \div 10, w - 1) \o <<Digits[(n % 10) + 1]>>

\* Date.prototype.toISOString: YYYY-MM-DDTHH:mm:ss.sssZ
ToISOString(d) ==
    Pad(d.year, 4) \o Dash \o Pad(d.month, 2) \o Dash \o Pad(d.day, 2) \o <<"T">>
    \o Pad(d.hour, 2) \o <<":">> \o Pad(d.minute, 2) \o <<":">> \o Pad(d.second, 2)
    \o Dot \o Pad(d.ms, 3) \o <<"Z">>

\* a timestamp left as toISOString returns it
ReplaceNothing(str) == str

\* .replace(/[:.]/g, '-')
ReplaceColonDot(str) ==
    [i \in 1..Len(str) |-> IF str[i] \in {":", "."} THEN "-" ELSE str[i]]

\* const timestamp = new Date().toISOString().replace(/[:.]/g, '-')
Timestamp(d) == ReplaceColonDot(ToISOString(d))

\* `<prefix>-${backupType}-${timestamp}.<ext>` and the `.gz` of the returned fileName
BackupFileName(kind, type, timestamp) ==
    kind \o Dash \o type \o Dash \o timestamp \o Dot
    \o (IF kind = Postgres THEN Sql ELSE Rdb) \o GzSuffix

\* index of the first occurrence of character c in str, 0 if there is none
IndexOf(str, c) ==
    IF \E i \in 1..Len(str) : str[i] = c
    THEN CHOOSE i \in 1..Len(str) : str[i] = c /\ \A j \in 1..(i - 1) : str[j] # c
    ELSE 0

Before(str, c) == SubSeq(str, 1, IndexOf(str, c) - 1)
After(str, c) == SubSeq(str, IndexOf(str, c) + 1, Len(str))

RECURSIVE Number(_)
\* the number a sequence of decimal digits writes
Number(str) ==
    IF str = <<>> THEN 0
    ELSE 10 * Number(SubSeq(str, 1, Len(str) - 1))
         + ((CHOOSE k \in 1..10 : Digits[k] = str[Len(str)]) - 1)

\* the reading of the naming convention <sourceKind>-<cadence>-<timestamp>.<ext>.gz:
\* the source kind up to the first dash, the cadence up to the second, the
\* timestamp up to the first dot, then the extension of the source kind
ParseFileName(name) ==
    LET kind == Before(name, "-")
        rest == After(name, "-")
        cadence == Before(rest, "-")
        tail == After(rest, "-")
    IN  [sourceKind |-> kind, cadence |-> cadence, timestamp |-> Before(tail, "."),
         ext |-> After(tail, ".")]

\* the instant a timestamp YYYY-MM-DDTHH-mm-ss-sssZ of the convention denotes
ParseTimestamp(ts) ==
    [year |-> Number(SubSeq(ts, 1, 4)), month |-> Number(SubSeq(ts, 6, 7)),
     day |-> Number(SubSeq(ts, 9, 10)), hour |-> Number(SubSeq(ts, 12, 13)),
     minute |-> Number(SubSeq(ts, 15, 16)), second |-> Number(SubSeq(ts, 18, 19)),
     ms |-> Number(SubSeq(ts, 21, 23))]

\* String.prototype.includes
Includes(str, sub) ==
    \E i \in 0..(Len(str) - Len(sub)) : SubSeq(str, i + 1, i + Len(sub)) = sub

NoNamed == [fileName |-> <<>>]

\* the first three statements of backupPostgreSQL / backupRedis and the
\* fileName of the result: a name is built from the kind, the backupType and
\* the clock
MakeFileName ==
    /\ \E kind \in {Postgres, Redis}, type \in BackupTypes, d \in Dates :
         named' = [kind |-> kind, backupType |-> type, date |-> d,
                   timestamp |-> Timestamp(d),
                   fileName |-> BackupFileName(kind, type, Timestamp(d))]
    /\ UNCHANGED <<env, fsvars, bvars, rvars, mvars, dvars, svars>>

\* ---------------------------------------------------------------- sorting
RECURSIVE SetToSeq(_)
\* readdirSync / Contents: the entries in some order
SetToSeq(S) ==
    IF S = {} THEN <<>>
    ELSE LET x == CHOOSE y \in S : TRUE IN <<x>> \o SetToSeq(S \ {x})

RECURSIVE InsertDesc(_, _, _)
\* x placed behind every element whose key is >= its own (a stable sort)
InsertDesc(sorted, x, key) ==
    IF sorted = <<>> THEN <<x>>
    ELSE IF Head(sorted)[key] >= x[key]
         THEN <<Head(sorted)>> \o InsertDesc(Tail(sorted), x, key)
         ELSE <<x>> \o sorted

RECURSIVE SortDesc(_, _)
\* .sort((a, b) => b[key] - a[key]): newest first
SortDesc(seq, key) ==
    IF seq = <<>> THEN <<>>
    ELSE InsertDesc(SortDesc(SubSeq(seq, 1, Len(seq) - 1), key), seq[Len(seq)], key)

Range(seq) == {seq[i] : i \in 1..Len(seq)}

\* ------------------------------------------------------- backup results
TypeOf(kind) == IF kind = "postgres" THEN "postgresql" ELSE "redis"

\* a backup step that reports a missing compressed file as a failure
BackupSuccess_OnlyWithFile(kind, c, ts, size) ==
    IF size = 0 THEN [success |-> FALSE, error |-> "compression failed"]
    ELSE [success |-> TRUE, fileName |-> FileName(kind, c, ts, TRUE), fileSize |-> size,
          type |-> TypeOf(kind), backupType |-> c, timestamp |-> ts]

\* the object returned by a backup step whose dump / copy succeeded
BackupSuccess(kind, c, ts, size) ==
    [success |-> TRUE, fileName |-> FileName(kind, c, ts, TRUE), fileSize |-> size,
     type |-> TypeOf(kind), backupType |-> c, timestamp |-> ts]

BackupFailure(msg) == [success |-> FALSE, error |-> msg]

\* turbomark/<type>/<backupType>/<fileName>
S3Key(res) == [type |-> res.type, cadence |-> res.backupType, name |-> res.fileName]

\* uploadToS3 with a catch block that reports the whole backup as failed
UploadToS3_FailingResult(backupResult, uploadOk) ==
    IF ~backupResult.success THEN backupResult
    ELSE IF uploadOk
         THEN [s3Location |-> S3Key(backupResult), s3Key |-> S3Key(backupResult),
               uploaded |-> TRUE] @@ backupResult
         ELSE [success |-> FALSE, uploadError |-> "upload failed", uploaded |-> FALSE]
              @@ backupResult

\* uploadToS3 as a function of its argument and of whether s3.upload resolved
UploadToS3(backupResult, uploadOk) ==
    IF ~backupResult.success THEN backupResult
    ELSE IF uploadOk
         THEN [s3Location |-> S3Key(backupResult), s3Key |-> S3Key(backupResult),
               uploaded |-> TRUE] @@ backupResult
         ELSE [uploadError |-> "upload failed", uploaded |-> FALSE] @@ backupResult

\* s3.upload of a key replaces the object
PutObject(bucket, key, t) ==
    {o \in bucket : o.key # key} \cup {[key |-> key, lastModified |-> t]}

\* fs.existsSync(finalPath) ? fs.statSync(finalPath).size : 0 (1 stands for any size > 0)
FileSize(dir, name) == IF Exists(dir, name) THEN 1 ELSE 0

\* ------------------------------------------------------ retention pruning
\* the listing of a prune pass that does not filter by backupType
FilesOfType_All(dir, c) ==
    SortDesc(SetToSeq(dir), "mtime")

\* readdirSync(backupDir).filter(includes(backupType)).map(stat).sort(newest first)
FilesOfType(dir, c) ==
    SortDesc(SetToSeq({f \in dir : NameIncludes(f.name, c)}), "mtime")

\* files.slice(retentionCount) when files.length > retentionCount; an absent
\* retention entry is undefined and the comparison with it is false
FilesToDelete(dir, c) ==
    LET files == FilesOfType(dir, c)
    IN  IF c \in RetentionDomain /\ Len(files) > Retention(c)
        THEN SubSeq(files, Retention(c) + 1, Len(files))
        ELSE <<>>

\* the unlink loop: failAt = 0 when every unlinkSync succeeds, otherwise the
\* index of the first one that throws, which ends the loop in the catch
CleanedDir(dir, c, failAt) ==
    LET del == FilesToDelete(dir, c)
        last == IF failAt = 0 THEN Len(del) ELSE failAt - 1
    IN  {f \in dir : \A i \in 1..last : del[i].name # f.name}

\* -------------------------------------------------------- the backup run
\* one external call (execSync through runCommand, an s3 or mail promise, the
\* grace timer, the prune pass) and whether it succeeded
Call(cmd, kind, ok) == [cmd |-> cmd, kind |-> kind, ok |-> ok]

\* the source whose result is being uploaded at position p of runBackups
KindAt(p) == IF p = "pgUpload" THEN "postgres" ELSE "redis"

\* uploadToS3 without its first line: s3.upload is tried for every result
UploadAttempted_Always(backupResult) == TRUE

\* uploadToS3 goes on to s3.upload only for a successful result
UploadAttempted(backupResult) == backupResult.success

\* fs.createReadStream(backupResult.filePath) finds the file
HasFile(dir, backupResult) ==
    "fileName" \in DOMAIN backupResult /\ Exists(dir, backupResult.fileName)

\* backupRedis waiting and copying whatever BGSAVE returned
AfterSave_AlwaysCopy(saveOk) == "redisWait"

\* backupRedis after BGSAVE: the wait and the copy follow only a successful save
AfterSave(saveOk) == IF saveOk THEN "redisWait" ELSE "redisUpload"

\* Positions at which run r is inside synchronous code (or behind an await of
\* an already settled promise): no timer callback can run in between.
Holding(r) ==
    \/ pc[r] \in {"pg", "redis", "clean"}
    \/ pc[r] \in {"pgUpload", "redisUpload"} /\ ~cur[r].success

OthersYield(r) == \A q \in Runs \ {r} : ~Holding(q)

NoResult == [success |-> FALSE, error |-> None]
NoReturn == [state |-> "pending"]

\* runBackups behind a lock: it is entered only when no other run is in flight
StartRun_Exclusive(r, c) ==
    /\ pc[r] = "idle"
    /\ \A q \in Runs \ {r} : pc[q] \in {"idle", "done"}
    /\ ops < MaxOps
    /\ ops' = ops + 1
    /\ pc' = [pc EXCEPT ![r] = "pg"]
    /\ backupType' = [backupType EXCEPT ![r] = c]
    /\ cur' = [cur EXCEPT ![r] = NoResult]
    /\ results' = [results EXCEPT ![r] = <<>>]
    /\ ret' = [ret EXCEPT ![r] = NoReturn]
    /\ mails' = [mails EXCEPT ![r] = 0]
    /\ runCmds' = [runCmds EXCEPT ![r] = <<>>]
    /\ UNCHANGED <<aside, now, faults, fsvars, rvars>>

\* runBackups(backupType) is called: by a timer, at startup or by hand
StartRun(r, c) ==
    /\ pc[r] = "idle"
    /\ OthersYield(r)
    /\ ops < MaxOps
    /\ ops' = ops + 1
    /\ pc' = [pc EXCEPT ![r] = "pg"]
    /\ backupType' = [backupType EXCEPT ![r] = c]
    /\ cur' = [cur EXCEPT ![r] = NoResult]
    /\ results' = [results EXCEPT ![r] = <<>>]
    /\ ret' = [ret EXCEPT ![r] = NoReturn]
    /\ mails' = [mails EXCEPT ![r] = 0]
    /\ runCmds' = [runCmds EXCEPT ![r] = <<>>]
    /\ UNCHANGED <<aside, now, faults, fsvars, rvars>>

\* backupPostgreSQL: pg_dump > file, then gzip. A failing dump may leave the
\* file its redirection created; a failing gzip leaves the uncompressed file.
BackupPostgreSQL(r) ==
    /\ pc[r] = "pg"
    /\ \E dump \in {"ok", "failedLeavingFile", "failedNoFile"}, gzipOk \in BOOLEAN :
         LET raw == FileName("postgres", backupType[r], now, FALSE)
             dumped == IF dump = "failedNoFile" THEN localDir
                       ELSE WriteFile(localDir, raw, now)
             final == IF dump = "ok" /\ gzipOk THEN Gzip(dumped, raw) ELSE dumped
         IN  /\ dump # "ok" => gzipOk
             /\ faults' = faults + (IF dump = "ok" THEN 0 ELSE 1) + (IF gzipOk THEN 0 ELSE 1)
             /\ faults' <= MaxFaults
             /\ localDir' = final
             /\ cur' = [cur EXCEPT ![r] =
                    IF dump = "ok"
                    THEN BackupSuccess("postgres", backupType[r], now,
                                       FileSize(final, [raw EXCEPT !.gz = TRUE]))
                    ELSE BackupFailure("pg_dump failed")]
             /\ now' = IF dump = "failedNoFile" THEN now ELSE now + 1
             /\ runCmds' = [runCmds EXCEPT ![r] =
                    @ \o <<Call("pg_dump", "postgres", dump = "ok")>>
                      \o (IF dump = "ok" THEN <<Call("gzip", "postgres", gzipOk)>> ELSE <<>>)]
    /\ pc' = [pc EXCEPT ![r] = "pgUpload"]
    /\ UNCHANGED <<aside, ops, s3Bucket, cwdFiles, tmpRdb, backupType, results, ret, mails, rvars>>

\* runBackups giving up on the redis step once the postgres step has failed
AfterUpload_SkipRedis(p, pushed) ==
    IF p = "pgUpload" /\ pushed.success THEN "redis" ELSE "clean"

\* runBackups pruning only when the last backup step succeeded
AfterUpload_PruneOnSuccess(p, pushed) ==
    IF p = "pgUpload" THEN "redis" ELSE IF pushed.success THEN "clean" ELSE "notify"

\* runBackups after results.push: the redis step follows the postgres step,
\* the cleanup follows the redis step
AfterUpload(p, pushed) == IF p = "pgUpload" THEN "redis" ELSE "clean"

\* uploadToS3(cur) and results.push: a failed result is returned at once; for a
\* successful one s3.upload settles, and it can only resolve if the file is there
Upload(r) ==
    /\ pc[r] \in {"pgUpload", "redisUpload"}
    /\ Holding(r) \/ OthersYield(r)
    /\ \E uploadOk \in BOOLEAN :
         /\ uploadOk => UploadAttempted(cur[r]) /\ HasFile(localDir, cur[r])
         /\ faults' = IF ~uploadOk /\ UploadAttempted(cur[r]) /\ HasFile(localDir, cur[r])
                       THEN faults + 1 ELSE faults
         /\ faults' <= MaxFaults
         /\ results' = [results EXCEPT ![r] = Append(@, UploadToS3(cur[r], uploadOk))]
         /\ runCmds' = [runCmds EXCEPT ![r] =
                IF UploadAttempted(cur[r])
                THEN Append(@, Call("s3.upload", KindAt(pc[r]), uploadOk))
                ELSE @]
         /\ IF uploadOk
            THEN /\ s3Bucket' = PutObject(s3Bucket, S3Key(cur[r]), now)
                 /\ now' = now + 1
            ELSE UNCHANGED <<s3Bucket, now>>
    /\ pc' = [pc EXCEPT ![r] = AfterUpload(pc[r], results'[r][Len(results'[r])])]
    /\ UNCHANGED <<aside, ops, localDir, cwdFiles, tmpRdb, backupType, cur, ret, mails, rvars>>

\* backupRedis up to its await: the timestamp is taken, BGSAVE is run
BackupRedisSave(r) ==
    /\ pc[r] = "redis"
    /\ \E saveOk \in BOOLEAN :
         /\ ~saveOk => faults < MaxFaults
         /\ faults' = IF saveOk THEN faults ELSE faults + 1
         /\ pc' = [pc EXCEPT ![r] = AfterSave(saveOk)]
         /\ runCmds' = [runCmds EXCEPT ![r] = Append(@, Call("BGSAVE", "redis", saveOk))]
         /\ cur' = [cur EXCEPT ![r] =
                IF saveOk THEN [success |-> TRUE, timestamp |-> now]
                ELSE BackupFailure("Redis backup failed")]
         /\ now' = IF saveOk THEN now + 1 ELSE now
    /\ UNCHANGED <<aside, ops, fsvars, backupType, results, ret, mails, rvars>>

\* backupRedis after the 5 s wait: docker cp of dump.rdb, then gzip
BackupRedisCopy(r) ==
    /\ pc[r] = "redisWait"
    /\ OthersYield(r)
    /\ \E copyOk \in BOOLEAN, gzipOk \in BOOLEAN :
         LET ts == cur[r].timestamp
             raw == FileName("redis", backupType[r], ts, FALSE)
             copied == IF copyOk THEN WriteFile(localDir, raw, ts) ELSE localDir
             final == IF copyOk /\ gzipOk THEN Gzip(copied, raw) ELSE copied
         IN  /\ ~copyOk => gzipOk
             /\ faults' = faults + (IF copyOk /\ gzipOk THEN 0 ELSE 1)
             /\ faults' <= MaxFaults
             /\ localDir' = final
             /\ cur' = [cur EXCEPT ![r] =
                    IF copyOk
                    THEN BackupSuccess("redis", backupType[r], ts,
                                       FileSize(final, [raw EXCEPT !.gz = TRUE]))
                    ELSE BackupFailure("Redis backup failed")]
             /\ runCmds' = [runCmds EXCEPT ![r] =
                    @ \o <<Call("wait", "redis", TRUE), Call("docker cp", "redis", copyOk)>>
                      \o (IF copyOk THEN <<Call("gzip", "redis", gzipOk)>> ELSE <<>>)]
    /\ pc' = [pc EXCEPT ![r] = "redisUpload"]
    /\ UNCHANGED <<aside, now, ops, s3Bucket, cwdFiles, tmpRdb, backupType, results, ret, mails, rvars>>

\* cleanOldBackups(backupType), then sendBackupNotification up to sendMail
CleanOldBackups(r) ==
    /\ pc[r] = "clean"
    /\ \E failAt \in 0..Len(FilesToDelete(localDir, backupType[r])) :
         /\ failAt # 0 => faults < MaxFaults
         /\ faults' = IF failAt = 0 THEN faults ELSE faults + 1
         /\ localDir' = CleanedDir(localDir, backupType[r], failAt)
         /\ runCmds' = [runCmds EXCEPT ![r] = Append(@, Call("cleanOldBackups", None, failAt = 0))]
    /\ pc' = [pc EXCEPT ![r] = "notify"]
    /\ UNCHANGED <<aside, now, ops, s3Bucket, cwdFiles, tmpRdb, backupType, cur, results, ret, mails, rvars>>

\* the value runBackups returns once sendMail has settled
RunBackupsReturn(res, mailOk) ==
    IF mailOk THEN [state |-> "returned", success |-> TRUE, results |-> res]
    ELSE [state |-> "returned", success |-> FALSE, error |-> "sendMail failed"]

\* transporter.sendMail settles: the run returns, or its catch block does
Notify(r) ==
    /\ pc[r] = "notify"
    /\ OthersYield(r)
    /\ \E mailOk \in BOOLEAN :
         /\ ~mailOk => faults < MaxFaults
         /\ faults' = IF mailOk THEN faults ELSE faults + 1
         /\ mails' = [mails EXCEPT ![r] = IF mailOk THEN @ + 1 ELSE @]
         /\ ret' = [ret EXCEPT ![r] = RunBackupsReturn(results[r], mailOk)]
         /\ runCmds' = [runCmds EXCEPT ![r] = Append(@, Call("sendMail", None, mailOk))]
    /\ pc' = [pc EXCEPT ![r] = "done"]
    /\ UNCHANGED <<aside, now, ops, fsvars, backupType, cur, results, rvars>>

\* the promise runBackups returned is dropped by its caller
RunSettled(r) ==
    /\ pc[r] = "done"
    /\ pc' = [pc EXCEPT ![r] = "idle"]
    /\ cur' = [cur EXCEPT ![r] = NoResult]
    /\ results' = [results EXCEPT ![r] = <<>>]
    /\ ret' = [ret EXCEPT ![r] = NoReturn]
    /\ mails' = [mails EXCEPT ![r] = 0]
    /\ runCmds' = [runCmds EXCEPT ![r] = <<>>]
    /\ UNCHANGED <<aside, env, fsvars, backupType, rvars>>

\* ------------------------------------------------------------- the listing
Undefined == [undefined |-> TRUE]
Null == [null |-> TRUE]
Falsy(x) == x \in {Undefined, Null}

\* obj.Key.includes(s)
KeyIncludes(key, s) ==
    \/ s = "postgres" /\ key.type = "postgresql"
    \/ s = key.type
    \/ s = key.cadence
    \/ NameIncludes(key.name, s)

\* a local entry typed without a look at the file name
LocalEntry_Postgres(f) ==
    [filename |-> f.name, type |-> "postgresql", created |-> f.mtime, location |-> "local"]

LocalEntry(f) ==
    [filename |-> f.name,
     type |-> IF NameIncludes(f.name, "postgres") THEN "postgresql" ELSE "redis",
     created |-> f.mtime, location |-> "local"]

S3Entry(o) ==
    [filename |-> o.key.name, key |-> o.key,
     type |-> IF KeyIncludes(o.key, "postgres") THEN "postgresql" ELSE "redis",
     created |-> o.lastModified, location |-> "s3"]

\* listAvailableBackups; a failing listObjectsV2 leaves backups.s3 empty
ListAvailableBackups(dir, bucket, listOk) ==
    [local |-> SortDesc(SetToSeq({LocalEntry(f) : f \in
                  {g \in dir : NameIncludes(g.name, ".sql.gz")
                                \/ NameIncludes(g.name, ".rdb.gz")}}), "created"),
     s3 |-> IF listOk
            THEN SortDesc(SetToSeq({S3Entry(o) : o \in
                     {q \in bucket : KeyIncludes(q.key, ".gz")}}), "created")
            ELSE <<>>]

\* [...backups.local, ...backups.s3].filter(type).sort(newest first)[0]
Latest(listing, type) ==
    LET sorted == SortDesc(SelectSeq(listing.local \o listing.s3,
                                     LAMBDA b : b.type = type), "created")
    IN  IF sorted = <<>> THEN Undefined ELSE sorted[1]

\* a guard that throws only when no artifact of either type is found
NoBackupFound_BothMissing(latestPostgres, latestRedis) ==
    Falsy(latestPostgres) /\ Falsy(latestRedis)

\* the guard of quickRollback's throw
NoBackupFound(latestPostgres, latestRedis) ==
    Falsy(latestPostgres) \/ Falsy(latestRedis)

\* --------------------------------------------------------------- restoring
BackupsPath(name) == [dir |-> "backups", name |-> name]
CwdPath(name) == [dir |-> "cwd", name |-> name]

\* postgresBackup.localPath || postgresBackup.filename
RestorePath(b) == IF "localPath" \in DOMAIN b THEN b.localPath ELSE CwdPath(b.filename)

PathExists(p) ==
    IF p.dir = "backups" THEN Exists(localDir, p.name) ELSE p.name \in cwdFiles

\* backupFile.replace('.gz', '')
TempSqlFile(p) == [p EXCEPT !.name.gz = FALSE]

\* restore functions that apply the artifact before stopping the consumers
RestoreCmds_ApplyFirst(type) ==
    <<"gunzip", "apply", "stop", "start", "unlink">>

\* the execSync / unlinkSync calls of the two restore functions, in order
RestoreCmds(type) ==
    IF type = "postgresql" THEN <<"gunzip", "stop", "apply", "start", "unlink">>
    ELSE <<"stop", "gunzip", "apply", "start", "unlink">>

\* failAt = 0: no call throws; otherwise the index of the call that throws
Reached(type, failAt, c) ==
    \E i \in 1..5 : RestoreCmds(type)[i] = c /\ (failAt = 0 \/ i <= failAt)
Succeeded(type, failAt, c) ==
    \E i \in 1..5 : RestoreCmds(type)[i] = c /\ (failAt = 0 \/ i < failAt)

Issued(type, failAt, p) ==
    [i \in 1..(IF failAt = 0 THEN 5 ELSE failAt) |->
        [cmd |-> RestoreCmds(type)[i], type |-> type, file |-> p,
         ok |-> (failAt = 0 \/ i < failAt)]]

RestoreResult(type, failAt) ==
    IF failAt = 0 THEN [success |-> TRUE, type |-> type]
    ELSE [success |-> FALSE, error |-> RestoreCmds(type)[failAt], type |-> type]

\* a failing call is a fault of the environment, except gunzip of a missing file
FaultsOf(p, failAt) == IF failAt = 0 \/ ~PathExists(p) THEN 0 ELSE 1

\* gunzip cannot succeed on a path that names no file
FailPoints(type, p) ==
    IF PathExists(p) THEN 0..5
    ELSE {i \in 1..5 : \A j \in 1..i : RestoreCmds(type)[j] = "gunzip" => j = i}

\* ------------------------------------------------------- the rollback tool
NoOpts == [postgresBackup |-> Null, redisBackup |-> Null,
           rollbackType |-> None, shouldDownload |-> FALSE]

ResetRollback ==
    /\ rresults' = <<>>
    /\ rret' = NoReturn
    /\ rmails' = 0
    /\ cmdLog' = <<>>

NoBackups == [local |-> <<>>, s3 |-> <<>>]

\* quickRollback is started: it awaits listAvailableBackups()
QuickRollback ==
    /\ rpc = "idle"
    /\ ops < MaxOps
    /\ ops' = ops + 1
    /\ ResetRollback
    /\ \E listOk \in BOOLEAN :
         /\ ~listOk => faults < MaxFaults
         /\ faults' = IF listOk THEN faults ELSE faults + 1
         /\ backups' = ListAvailableBackups(localDir, s3Bucket, listOk)
    /\ opts' = [NoOpts EXCEPT !.rollbackType = "quick"]
    /\ rpc' = "listed"
    /\ UNCHANGED <<aside, now, fsvars, bvars>>

\* quickRollback picks the latest artifact of each type, then throws or calls
\* executeRollback with both
QuickSelect ==
    /\ rpc = "listed"
    /\ LET latestPostgres == Latest(backups, "postgresql")
           latestRedis == Latest(backups, "redis")
       IN  IF NoBackupFound(latestPostgres, latestRedis)
           THEN /\ rpc' = "threw"
                /\ UNCHANGED opts
           ELSE /\ rpc' = "dlPg"
                /\ opts' = [postgresBackup |-> latestPostgres,
                            redisBackup |-> latestRedis,
                            rollbackType |-> "quick", shouldDownload |-> TRUE]
    /\ backups' = NoBackups
    /\ UNCHANGED <<aside, env, fsvars, bvars, rresults, rret, rmails, cmdLog>>

\* quickRollback's throw reaches its caller: no notification, no return value
QuickRollbackThrows ==
    /\ rpc = "threw"
    /\ rret' = [state |-> "threw", error |-> "No recent backups found for quick rollback"]
    /\ rpc' = "done"
    /\ UNCHANGED <<aside, env, fsvars, bvars, backups, opts, rresults, rmails, cmdLog>>

\* executeRollback(options) called with artifacts taken from a listing
ExecuteRollback ==
    /\ rpc = "idle"
    /\ ops < MaxOps
    /\ ops' = ops + 1
    /\ ResetRollback
    /\ UNCHANGED backups
    /\ LET listed == ListAvailableBackups(localDir, s3Bucket, TRUE)
           all == Range(listed.local \o listed.s3)
       IN  \E pgB \in {b \in all : b.type = "postgresql"} \cup {Null},
              redisB \in {b \in all : b.type = "redis"} \cup {Null},
              dl \in BOOLEAN :
             /\ ~(Falsy(pgB) /\ Falsy(redisB))
             /\ opts' = [postgresBackup |-> pgB, redisBackup |-> redisB,
                         rollbackType |-> "manual", shouldDownload |-> dl]
    /\ rpc' = "dlPg"
    /\ UNCHANGED <<aside, now, faults, fsvars, bvars>>

\* downloadFromS3 for one of the two artifacts, and the localPath it sets
Download(b, field) ==
    IF opts.shouldDownload /\ ~Falsy(b) /\ b.location = "s3"
    THEN \E downloaded \in BOOLEAN :
           /\ ~downloaded => faults < MaxFaults
           /\ faults' = IF downloaded THEN faults ELSE faults + 1
           /\ cmdLog' = Append(cmdLog, [cmd |-> "getObject", type |-> b.type,
                                        file |-> BackupsPath(b.filename), ok |-> downloaded])
           /\ IF downloaded
              THEN /\ localDir' = WriteFile(localDir, b.filename, now)
                   /\ now' = now + 1
                   /\ opts' = [opts EXCEPT ![field] =
                                  [localPath |-> BackupsPath(b.filename)] @@ b]
              ELSE UNCHANGED <<localDir, now, opts>>
    ELSE UNCHANGED <<localDir, now, faults, opts, cmdLog>>

DownloadPostgres ==
    /\ rpc = "dlPg"
    /\ Download(opts.postgresBackup, "postgresBackup")
    /\ rpc' = "dlRedis"
    /\ UNCHANGED <<aside, ops, s3Bucket, cwdFiles, tmpRdb, bvars, backups, rresults, rret, rmails>>

DownloadRedis ==
    /\ rpc = "dlRedis"
    /\ Download(opts.redisBackup, "redisBackup")
    /\ rpc' = "restorePg"
    /\ UNCHANGED <<aside, ops, s3Bucket, cwdFiles, tmpRdb, bvars, backups, rresults, rret, rmails>>

\* if (postgresBackup) results.push(await restorePostgreSQL(path))
RestorePostgreSQL ==
    /\ rpc = "restorePg"
    /\ LET b == opts.postgresBackup IN
       IF Falsy(b) THEN UNCHANGED <<now, faults, localDir, cwdFiles, rresults, cmdLog>>
       ELSE LET p == RestorePath(b)
                temp == TempSqlFile(p)
            IN  \E failAt \in FailPoints("postgresql", p) :
                  /\ faults' = faults + FaultsOf(p, failAt)
                  /\ faults' <= MaxFaults
                  /\ cmdLog' = cmdLog \o Issued("postgresql", failAt, p)
                  /\ rresults' = Append(rresults, RestoreResult("postgresql", failAt))
                  /\ IF p.dir = "backups"
                     THEN /\ localDir' =
                               IF Succeeded("postgresql", failAt, "unlink")
                               THEN Unlink(localDir, temp.name)
                               ELSE WriteFile(localDir, temp.name, now)
                          /\ now' = now + 1
                          /\ UNCHANGED cwdFiles
                     ELSE /\ cwdFiles' =
                               IF Succeeded("postgresql", failAt, "unlink")
                               THEN cwdFiles \ {temp.name}
                               ELSE cwdFiles \cup {temp.name}
                          /\ UNCHANGED <<localDir, now>>
    /\ rpc' = "restoreRedis"
    /\ UNCHANGED <<aside, ops, s3Bucket, tmpRdb, bvars, backups, opts, rret, rmails>>

\* if (redisBackup) results.push(await restoreRedis(path))
RestoreRedis ==
    /\ rpc = "restoreRedis"
    /\ LET b == opts.redisBackup IN
       IF Falsy(b) THEN UNCHANGED <<faults, tmpRdb, rresults, cmdLog>>
       ELSE LET p == RestorePath(b)
            IN  \E failAt \in FailPoints("redis", p) :
                  /\ faults' = faults + FaultsOf(p, failAt)
                  /\ faults' <= MaxFaults
                  /\ cmdLog' = cmdLog \o Issued("redis", failAt, p)
                  /\ rresults' = Append(rresults, RestoreResult("redis", failAt))
                  /\ tmpRdb' = IF Reached("redis", failAt, "gunzip")
                               THEN ~Succeeded("redis", failAt, "unlink")
                               ELSE tmpRdb
    /\ rpc' = "notify"
    /\ UNCHANGED <<aside, now, ops, localDir, s3Bucket, cwdFiles, bvars, backups, opts, rret, rmails>>

\* what executeRollback returns after its try block
ExecuteRollbackReturn(res) == [state |-> "returned", success |-> TRUE, results |-> res]

\* sendRollbackNotification inside the try block
RollbackNotify ==
    /\ rpc = "notify"
    /\ \E mailOk \in BOOLEAN :
         /\ ~mailOk => faults < MaxFaults
         /\ faults' = IF mailOk THEN faults ELSE faults + 1
         /\ IF mailOk
            THEN /\ rmails' = rmails + 1
                 /\ rret' = ExecuteRollbackReturn(rresults)
                 /\ rpc' = "done"
            ELSE /\ rpc' = "notifyCatch"
                 /\ UNCHANGED <<rmails, rret>>
    /\ UNCHANGED <<aside, now, ops, fsvars, bvars, backups, opts, rresults, cmdLog>>

\* the catch block: a second sendRollbackNotification, whose failure rejects
RollbackNotifyCatch ==
    /\ rpc = "notifyCatch"
    /\ \E mailOk \in BOOLEAN :
         /\ ~mailOk => faults < MaxFaults
         /\ faults' = IF mailOk THEN faults ELSE faults + 1
         /\ IF mailOk
            THEN /\ rmails' = rmails + 1
                 /\ rret' = [state |-> "returned", success |-> FALSE,
                             error |-> "sendMail failed"]
            ELSE /\ rret' = [state |-> "threw", error |-> "sendMail failed"]
                 /\ UNCHANGED rmails
    /\ rpc' = "done"
    /\ UNCHANGED <<aside, now, ops, fsvars, bvars, backups, opts, rresults, cmdLog>>

\* the rollback tool's process ends
RollbackExit ==
    /\ rpc = "done"
    /\ rpc' = "idle"
    /\ opts' = NoOpts
    /\ backups' = NoBackups
    /\ ResetRollback
    /\ UNCHANGED <<aside, env, fsvars, bvars>>

\* ------------------------------------------------------ the specification
\* ------------------------------------------------------------ the scheduler
\* days followed
MaxDays == 8

MinuteMs == 60 * 1000
\* 60 * 60 * 1000 halved
HourlyInterval_Half == 30 * 60 * 1000
\* 60 * 60 * 1000: the interval of the hourly timer and of the two polls
HourlyInterval == 60 * 60 * 1000
HourMs == 60 * 60 * 1000
\* dailyInterval
DailyInterval == 24 * 60 * 60 * 1000
TwoAM == 2 * 60 * 60 * 1000

NotYet == -1
Timers == {"hourly", "dailyFirst", "daily", "weeklyCheck", "monthlyCheck"}
NoTimers == [t \in Timers |-> NotYet]

\* the instants the process is started at, and the zones it runs in
StartTimes == {0, 30 * MinuteMs, TwoAM + 1, 13 * HourMs}
TzOffsets == {0, 2 * HourMs}

\* new Date(t): local calendar fields. Day 0 of the clock is Sunday the 1st of
\* a month of 30 days.
LocalDay(t) == (t + tz) \div DailyInterval
GetDay(t) == LocalDay(t) % 7
GetDate(t) == LocalDay(t) + 1
GetHours(t) == ((t + tz) % DailyInterval) \div HourMs

\* a timer delay below 1 ms is taken as 1 ms
TimerDelay(ms) == IF ms < 1 THEN 1 ELSE ms

\* (2 * 60 * 60 * 1000) - (Date.now() % dailyInterval)
MsUntil2AM(t) == TwoAM - (t % DailyInterval)

InitSchedule ==
    /\ wall = 0
    /\ tz = 0
    /\ boot = NotYet
    /\ due = NoTimers
    /\ fired = {}

\* the process starts: runBackups('startup'), then scheduleBackups()
Boot ==
    /\ boot = NotYet
    /\ \E t \in StartTimes, z \in TzOffsets :
         /\ wall' = t
         /\ tz' = z
         /\ boot' = t
         /\ due' = [hourly |-> t + HourlyInterval,
                    dailyFirst |-> t + TimerDelay(MsUntil2AM(t)),
                    daily |-> NotYet,
                    weeklyCheck |-> t + HourlyInterval,
                    monthlyCheck |-> t + HourlyInterval]
         /\ fired' = {[cadence |-> "startup", at |-> t]}
    /\ UNCHANGED <<backupState, mvars, dvars>>

\* timer t is the next to fire (or one of them), within the days followed
Due(t) ==
    /\ due[t] # NotYet
    /\ due[t] <= MaxDays * DailyInterval
    /\ \A u \in Timers : due[u] # NotYet => due[t] <= due[u]

RunBackupsAt(c, t) == fired \cup {[cadence |-> c, at |-> t]}

\* setInterval(() => runBackups('hourly'), 60 * 60 * 1000)
HourlyTimer ==
    /\ Due("hourly")
    /\ wall' = due["hourly"]
    /\ fired' = RunBackupsAt("hourly", wall')
    /\ due' = [due EXCEPT !["hourly"] = @ + HourlyInterval]
    /\ UNCHANGED <<tz, boot, backupState, mvars, dvars>>

\* the setTimeout callback: runBackups('daily'), then setInterval(dailyInterval)
DailyTimeout ==
    /\ Due("dailyFirst")
    /\ wall' = due["dailyFirst"]
    /\ fired' = RunBackupsAt("daily", wall')
    /\ due' = [due EXCEPT !["dailyFirst"] = NotYet, !["daily"] = wall' + DailyInterval]
    /\ UNCHANGED <<tz, boot, backupState, mvars, dvars>>

\* setInterval(() => runBackups('daily'), dailyInterval)
DailyTimer ==
    /\ Due("daily")
    /\ wall' = due["daily"]
    /\ fired' = RunBackupsAt("daily", wall')
    /\ due' = [due EXCEPT !["daily"] = @ + DailyInterval]
    /\ UNCHANGED <<tz, boot, backupState, mvars, dvars>>

\* weeklyCheck, every hour
WeeklyCheck ==
    /\ Due("weeklyCheck")
    /\ wall' = due["weeklyCheck"]
    /\ fired' = IF GetDay(wall') = 0 /\ GetHours(wall') = 3
                THEN RunBackupsAt("weekly", wall') ELSE fired
    /\ due' = [due EXCEPT !["weeklyCheck"] = @ + HourlyInterval]
    /\ UNCHANGED <<tz, boot, backupState, mvars, dvars>>

\* monthlyCheck, every hour
MonthlyCheck ==
    /\ Due("monthlyCheck")
    /\ wall' = due["monthlyCheck"]
    /\ fired' = IF GetDate(wall') = 1 /\ GetHours(wall') = 4
                THEN RunBackupsAt("monthly", wall') ELSE fired
    /\ due' = [due EXCEPT !["monthlyCheck"] = @ + HourlyInterval]
    /\ UNCHANGED <<tz, boot, backupState, mvars, dvars>>

\* -------------------------------------------------- the deployment pipeline
Environments == {"staging", "production"}
\* the runCommand steps of a deployment, in the order of the code
CommandSteps == <<"git_pull", "env_setup", "docker_build", "services_stop", "services_start">>
\* env.healthEndpoints: two for each environment
HealthEndpoints == {1, 2}

\* the steps followed by "if (!result.success) throw": all but services_stop
Throws(step) == step # "services_stop"

ErrorMessage(step) ==
    CASE step = "git_pull" -> "Git pull failed"
      [] step = "env_setup" -> "Environment setup failed"
      [] step = "docker_build" -> "Docker build failed"
      [] step = "services_start" -> "Service startup failed"
      [] OTHER -> "Health checks failed after deployment"

\* a health check content with one healthy endpoint
IsHealthy_Any(checks) ==
    \E e \in DOMAIN checks : checks[e] = "healthy"

\* healthyCount === results.length
IsHealthy(checks) ==
    Cardinality({e \in DOMAIN checks : checks[e] = "healthy"}) = Cardinality(DOMAIN checks)

\* checkHealth: one axios.get per endpoint, each caught on its own
CheckHealth(up) ==
    LET checks == [e \in HealthEndpoints |-> IF up[e] THEN "healthy" ELSE "failed"]
    IN  [isHealthy |-> IsHealthy(checks), results |-> checks]

RECURSIVE RunSteps(_, _)
\* the runCommand steps from the i-th on, up to the first one that throws
RunSteps(i, ok) ==
    IF i > Len(CommandSteps) THEN <<>>
    ELSE LET entry == [step |-> CommandSteps[i], success |-> ok[i]]
         IN  IF ~ok[i] /\ Throws(CommandSteps[i]) THEN <<entry>>
             ELSE <<entry>> \o RunSteps(i + 1, ok)

\* the deployment log ends with a step that threw
Thrown(log) == ~log[Len(log)].success /\ Throws(log[Len(log)].step)

\* deployToEnvironment as a function of the outcome of each command and of
\* each health endpoint: what it returns, and whether its catch block ran
DeployToEnvironment(environment, ok, up) ==
    LET commands == RunSteps(1, ok)
        healthCheck == CheckHealth(up)
        deploymentLog ==
            IF Thrown(commands) THEN commands
            ELSE Append(commands, [step |-> "health_check",
                                   success |-> healthCheck.isHealthy,
                                   results |-> healthCheck.results])
    IN  IF Thrown(deploymentLog)
        THEN [rollback |-> TRUE,
              result |-> [success |-> FALSE, environment |-> environment,
                          error |-> ErrorMessage(deploymentLog[Len(deploymentLog)].step),
                          log |-> deploymentLog]]
        ELSE [rollback |-> FALSE,
              result |-> [success |-> TRUE, environment |-> environment,
                          healthCheck |-> healthCheck.results, log |-> deploymentLog]]

\* what a deployment executes, in order: its steps, then the emergency
\* rollback command if the catch block ran (its outcome is not looked at)
Executed(environment, d) ==
    [i \in 1..Len(d.result.log) |->
        [env |-> environment, step |-> d.result.log[i].step,
         success |-> d.result.log[i].success]]
    \o (IF d.rollback
        THEN <<[env |-> environment, step |-> "rollback", success |-> TRUE]>>
        ELSE <<>>)

\* results = {}
NoDeployResults == [staging |-> Undefined, production |-> Undefined, pipelineError |-> None]

\* x?.success
Success(x) == "success" \in DOMAIN x /\ x.success

\* a subject that looks at the staging result only
Subject_StagingOnly(res) ==
    IF ~Success(res.staging) THEN "failed" ELSE "complete"

\* sendDeploymentNotification: the subject
Subject(res) ==
    IF ~Success(res.staging) \/ ~Success(res.production)
    THEN "failed" ELSE "complete"

\* a pipeline that goes on to production whatever staging returned
AfterStaging_Always(result) == "production"

\* if (!results.staging.success) throw: the catch leads to the notification
AfterStaging(result) == IF result.success THEN "production" ELSE "notify"

InitDeploy ==
    /\ dpc = "idle"
    /\ dlog = <<>>
    /\ dresults = NoDeployResults
    /\ dret = NoReturn
    /\ dmails = <<>>

Outcomes == [1..Len(CommandSteps) -> BOOLEAN]
Reachability == [HealthEndpoints -> BOOLEAN]

\* runDeploymentPipeline up to its first await: git rev-parse HEAD
StartPipeline ==
    /\ dpc = "idle"
    /\ dpc' = "staging"
    /\ UNCHANGED <<dlog, dresults, dret, dmails, backupState, mvars, svars>>

\* results.staging = await deployToEnvironment('staging', commitSha)
DeployStaging ==
    /\ dpc = "staging"
    /\ \E ok \in Outcomes, up \in Reachability :
         LET d == DeployToEnvironment("staging", ok, up)
         IN  /\ dlog' = dlog \o Executed("staging", d)
             /\ dresults' = [dresults EXCEPT
                    !.staging = d.result,
                    !.pipelineError =
                        IF AfterStaging(d.result) = "notify"
                        THEN "Staging deployment failed - aborting production deployment"
                        ELSE @]
             /\ dpc' = AfterStaging(d.result)
    /\ UNCHANGED <<dret, dmails, backupState, mvars, svars>>

\* results.production = await deployToEnvironment('production', commitSha)
DeployProduction ==
    /\ dpc = "production"
    /\ \E ok \in Outcomes, up \in Reachability :
         LET d == DeployToEnvironment("production", ok, up)
         IN  /\ dlog' = dlog \o Executed("production", d)
             /\ dresults' = [dresults EXCEPT !.production = d.result]
    /\ dpc' = "notify"
    /\ UNCHANGED <<dret, dmails, backupState, mvars, svars>>

\* await sendDeploymentNotification(results); return results. A rejecting
\* sendMail rejects the pipeline.
SendDeploymentNotification ==
    /\ dpc = "notify"
    /\ \E mailOk \in BOOLEAN :
         /\ dmails' = Append(dmails, [subject |-> Subject(dresults), delivered |-> mailOk])
         /\ dlog' = Append(dlog, [env |-> None, step |-> "sendMail", success |-> mailOk])
         /\ dret' = IF mailOk THEN [state |-> "returned", value |-> dresults]
                    ELSE [state |-> "rejected"]
    /\ dpc' = "done"
    /\ UNCHANGED <<dresults, backupState, mvars, svars>>

\* the command line with an environment name: deployToEnvironment(environment, 'manual')
ManualDeploy ==
    /\ dpc = "idle"
    /\ \E environment \in Environments, ok \in Outcomes, up \in Reachability :
         LET d == DeployToEnvironment(environment, ok, up)
         IN  /\ dlog' = dlog \o Executed(environment, d)
             /\ dret' = [state |-> "returned", value |-> d.result]
    /\ dpc' = "manual"
    /\ UNCHANGED <<dresults, dmails, backupState, mvars, svars>>

\* ------------------------------------------- the simulated business metrics
\* updates followed
MaxTicks == 30

\* Math.random() in thousandths: the least and the greatest value it takes
Randoms == {0, 999}

\* Math.floor(u * n) for u in thousandths
FloorTimes(u, n) == (u * n) \div 1000

\* the object as the module creates it (the fields the update writes)
InitialMetrics ==
    [dailyRevenue |-> 2500, newSignupsToday |-> 23, apiCallsToday |-> 15840]

\* an update without the lower limit of the revenue
FloorRevenue_None(x) == x

\* if (dailyRevenue < 1000) dailyRevenue = 1000
FloorRevenue(x) == IF x < 1000 THEN 1000 ELSE x

\* if (newSignupsToday > 50) newSignupsToday = 50
CapSignups(x) == IF x > 50 THEN 50 ELSE x

InitMetrics ==
    /\ businessMetrics = InitialMetrics
    /\ mticks = 0

\* the setInterval callback: three draws, three additions, two limits
UpdateMetrics ==
    /\ mticks < MaxTicks
    /\ mticks' = mticks + 1
    /\ \E u1 \in Randoms, u2 \in Randoms, u3 \in Randoms :
         businessMetrics' =
             [dailyRevenue |->
                  FloorRevenue(businessMetrics.dailyRevenue + FloorTimes(u1, 200) - 100),
              newSignupsToday |->
                  CapSignups(businessMetrics.newSignupsToday + (IF u2 > 700 THEN 1 ELSE 0)),
              apiCallsToday |-> businessMetrics.apiCallsToday + FloorTimes(u3, 50)]
    /\ UNCHANGED <<backupState, dvars, svars>>

InitBackup ==
    /\ pc = [r \in Runs |-> "idle"]
    /\ backupType = [r \in Runs |-> "startup"]
    /\ cur = [r \in Runs |-> NoResult]
    /\ results = [r \in Runs |-> <<>>]
    /\ ret = [r \in Runs |-> NoReturn]
    /\ mails = [r \in Runs |-> 0]
    /\ runCmds = [r \in Runs |-> <<>>]

InitRollback ==
    /\ rpc = "idle"
    /\ backups = NoBackups
    /\ opts = NoOpts
    /\ rresults = <<>>
    /\ rret = NoReturn
    /\ rmails = 0
    /\ cmdLog = <<>>

Init ==
    /\ now = 1
    /\ ops = 0
    /\ faults = 0
    /\ localDir = {}
    /\ s3Bucket = {}
    /\ cwdFiles = {}
    /\ tmpRdb = FALSE
    /\ InitBackup
    /\ InitRollback
    /\ named = NoNamed
    /\ InitMetrics
    /\ InitSchedule
    /\ InitDeploy

\* nothing in progress: no backup run, no rollback
Quiet == rpc = "idle" /\ \A r \in Runs : pc[r] = "idle"

BackupStep(r) ==
    \/ BackupPostgreSQL(r)
    \/ Upload(r)
    \/ BackupRedisSave(r)
    \/ BackupRedisCopy(r)
    \/ CleanOldBackups(r)
    \/ Notify(r)
    \/ RunSettled(r)

RollbackStep ==
    \/ QuickSelect
    \/ QuickRollbackThrows
    \/ DownloadPostgres
    \/ DownloadRedis
    \/ RestorePostgreSQL
    \/ RestoreRedis
    \/ RollbackNotify
    \/ RollbackNotifyCatch
    \/ RollbackExit

\* One activity at a time: the operator runs the rollback tool while no
\* backup run is in flight, and a run is started when the previous one is over.
Next ==
    \/ \E c \in Cadences : Quiet /\ StartRun(1, c)
    \/ \E r \in Runs : BackupStep(r)
    \/ Quiet /\ QuickRollback
    \/ Quiet /\ ExecuteRollback
    \/ RollbackStep

Spec == Init /\ [][Next]_vars

\* Overlapping runs: a timer or the startup call enters runBackups whenever the
\* thread is free, whether or not an earlier run is still waiting at an await.
\* Two invocations are followed, each up to the report it sends.
Overlapping == {1, 2}

NextOverlap ==
    \/ \E r \in Overlapping, c \in Cadences : StartRun(r, c)
    \/ \E r \in Overlapping :
          \/ BackupPostgreSQL(r)
          \/ Upload(r)
          \/ BackupRedisSave(r)
          \/ BackupRedisCopy(r)
          \/ CleanOldBackups(r)
          \/ Notify(r)

SpecOverlap == Init /\ [][NextOverlap]_vars

\* The naming of artifacts on its own: names are built for every source kind,
\* backupType and instant.
NextNames == MakeFileName

SpecNames == Init /\ [][NextNames]_vars

\* The scheduler on its own: the process starts at some instant in some zone,
\* then its timers fire in the order of their due times.
NextSchedule ==
    \/ Boot
    \/ HourlyTimer
    \/ DailyTimeout
    \/ DailyTimer
    \/ WeeklyCheck
    \/ MonthlyCheck

SpecSchedule == Init /\ [][NextSchedule]_vars

\* The deployment tool on its own: one invocation, of the pipeline or of a
\* single environment.
NextDeploy ==
    \/ StartPipeline
    \/ DeployStaging
    \/ DeployProduction
    \/ SendDeploymentNotification
    \/ ManualDeploy

SpecDeploy == Init /\ [][NextDeploy]_vars

\* The metrics module on its own: the timer fires every 30 s.
NextMetrics == UpdateMetrics

SpecMetrics == Init /\ [][NextMetrics]_vars

\* ================================================================= claims
Min(a, b) == IF a <= b THEN a ELSE b
OfCadence(dir, c) == {f \in dir : f.name.cadence = c}
\* a step of run r that is its cleanOldBackups pass with every unlink succeeding
PrunePass(r) ==
    /\ pc[r] = "clean"
    /\ pc'[r] = "notify"
    /\ localDir' = CleanedDir(localDir, backupType[r], 0)

\* C1: after cleanOldBackups(c) for a cadence c with keep-count k, the local
\* files of cadence c number min(k, count before) and are the k newest by
\* creation time (the timestamp their names carry): no deleted file was created
\* after a retained one.
C1_PruneKeepsNewestCreated ==
    [][\A r \in Runs :
         PrunePass(r) /\ backupType[r] \in RetentionDomain =>
           LET c == backupType[r]
               prior == OfCadence(localDir, c)
               kept == OfCadence(localDir', c)
           IN  /\ Cardinality(kept) = Min(Retention(c), Cardinality(prior))
               /\ \A f \in kept, g \in prior \ kept : f.name.ts >= g.name.ts]_vars

StopsDone(type) ==
    {i \in 1..Len(cmdLog) : cmdLog[i].cmd = "stop" /\ cmdLog[i].type = type /\ cmdLog[i].ok}
StartsIssued(type) ==
    {i \in 1..Len(cmdLog) : cmdLog[i].cmd = "start" /\ cmdLog[i].type = type}
Types == {"postgresql", "redis"}

\* C2: a restore that has stopped its consumers has issued the consumer-restart
\* command exactly once by the time it returns, whatever step failed after the stop.
C2_RestartAfterStop ==
    \A type \in Types : StopsDone(type) # {} => Cardinality(StartsIssued(type)) = 1


ConsumerCmds == {"stop", "apply", "start"}
NoConsumerCmd(log) == \A i \in 1..Len(log) : log[i].cmd \notin ConsumerCmds
Lists(listing, type) == \E b \in Range(listing.local \o listing.s3) : b.type = type
NoBackupMsg == "No recent backups found for quick rollback"

\* C3: when the listing quickRollback obtained holds no artifact of one of the
\* two types, quickRollback throws its no-backup-found error, and up to the
\* throw reaching the caller no consumer is stopped or started and nothing is
\* restored.
C3_NoBackupNoConsumerCall ==
    [][/\ (rpc = "listed" /\ \E type \in Types : ~Lists(backups, type)) =>
            rpc' = "threw" /\ NoConsumerCmd(cmdLog') /\ rresults' = <<>>
       /\ rpc = "threw" =>
            /\ rpc' = "done"
            /\ rret' = [state |-> "threw", error |-> NoBackupMsg]
            /\ cmdLog' = <<>>
            /\ rresults' = <<>>]_vars

\* C3 witness: quickRollback has thrown although postgres artifacts exist
\* locally: only the redis ones are missing.
C3_Witness ==
    /\ rpc = "done"
    /\ rret = [state |-> "threw", error |-> NoBackupMsg]
    /\ \E f \in localDir : f.name.gz /\ f.name.kind = "postgres"
    /\ ~\E f \in localDir : f.name.gz /\ f.name.kind = "redis"

FailedDownloads ==
    {i \in 1..Len(cmdLog) : cmdLog[i].cmd = "getObject" /\ ~cmdLog[i].ok}

\* C4: when the download of an artifact that exists only remotely fails, no
\* consumer stop command is issued for that artifact's type.
C4_NoStopAfterFailedDownload ==
    \A i \in FailedDownloads :
        ~Exists(localDir, cmdLog[i].file.name) =>
            \A j \in 1..Len(cmdLog) :
                ~(cmdLog[j].cmd = "stop" /\ cmdLog[j].type = cmdLog[i].type)

\* C5: every backup run and every rollback that has ended has delivered
\* exactly one notification.
C5_OneNotificationPerRun ==
    /\ \A r \in Runs : pc[r] = "done" => mails[r] = 1
    /\ rpc = "done" => rmails = 1


\* the result uploadToS3 returned and runBackups pushed in this step of run r
Pushed(r) == results'[r][Len(results'[r])]
UploadReturns(r) ==
    /\ pc[r] \in {"pgUpload", "redisUpload"}
    /\ pc'[r] # pc[r]
    /\ cur[r].success

\* C6: for a backup result whose local write succeeded, uploadToS3 returns the
\* result with success still true and every field as it was; a failing upload
\* adds only uploaded=false and uploadError, a successful one sets uploaded=true.
C6_UploadKeepsSuccess ==
    [][\A r \in Runs :
         UploadReturns(r) =>
           /\ Pushed(r).success
           /\ \A fld \in DOMAIN cur[r] : Pushed(r)[fld] = cur[r][fld]
           /\ IF s3Bucket' = s3Bucket
              THEN /\ ~Pushed(r).uploaded
                   /\ DOMAIN Pushed(r) = DOMAIN cur[r] \cup {"uploaded", "uploadError"}
              ELSE /\ Pushed(r).uploaded
                   /\ DOMAIN Pushed(r) \ DOMAIN cur[r] = {"uploaded", "s3Key", "s3Location"}]_vars

\* C6 witness: a run holds a result whose upload failed although its file is
\* in the backup directory.
C6_Witness ==
    \E r \in Runs : \E i \in 1..Len(results[r]) :
        /\ results[r][i].success
        /\ ~results[r][i].uploaded
        /\ Exists(localDir, results[r][i].fileName)

PgFailureMsg == "pg_dump failed"
RedisFailureMsg == "Redis backup failed"
IsResultOf(res, type, msg) ==
    IF res.success THEN res.type = type ELSE res.error = msg
Requested(b) == IF Falsy(b) THEN 0 ELSE 1
LogOf(type) == SelectSeq(cmdLog, LAMBDA e : e.type = type /\ e.cmd # "getObject")

AttemptedBothBackups ==
    \A r \in Runs : pc[r] \in {"clean", "notify", "done"} =>
        /\ Len(results[r]) = 2
        /\ IsResultOf(results[r][1], "postgresql", PgFailureMsg)
        /\ IsResultOf(results[r][2], "redis", RedisFailureMsg)
PastRestores ==
    rpc \in {"notify", "notifyCatch"} \/ (rpc = "done" /\ rresults # <<>>)

\* C7 as stated: in every backup run and every rollback run both source kinds
\* are attempted, the relational one first, whether or not it failed, and the
\* result set holds one result for each.
C7_BothAttemptedInEveryRun ==
    /\ AttemptedBothBackups
    /\ PastRestores =>
         /\ Len(rresults) = 2
         /\ \A type \in Types : LogOf(type) # <<>>

\* C7 amended: a run past its two backup steps holds two results, the first of
\* the postgres step and the second of the redis step, whether or not the
\* first failed; a rollback past its restore steps holds one result per source
\* kind it was given an artifact for, postgres first whether or not it failed,
\* and has issued the restore commands of each.
C7_BothSourcesAttempted ==
    /\ \A r \in Runs : pc[r] \in {"clean", "notify", "done"} =>
         /\ Len(results[r]) = 2
         /\ IsResultOf(results[r][1], "postgresql", PgFailureMsg)
         /\ IsResultOf(results[r][2], "redis", RedisFailureMsg)
    /\ rpc \in {"notify", "notifyCatch"} \/ (rpc = "done" /\ rresults # <<>>) =>
         LET pg == Requested(opts.postgresBackup)
             redis == Requested(opts.redisBackup)
         IN  /\ Len(rresults) = pg + redis
             /\ pg = 1 => rresults[1].type = "postgresql" /\ LogOf("postgresql") # <<>>
             /\ redis = 1 => rresults[pg + 1].type = "redis" /\ LogOf("redis") # <<>>

\* C7 witness: a run whose postgres step failed holds the redis step's
\* successful result.
C7_Witness ==
    \E r \in Runs :
        /\ pc[r] = "done"
        /\ ~results[r][1].success
        /\ results[r][2].success

\* C8: runBackups returns success=true only if the results of both sources
\* have success=true.
C8_AggregateSuccess ==
    \A r \in Runs :
        pc[r] = "done" /\ ret[r].success =>
            \A i \in 1..Len(results[r]) : results[r][i].success

\* C9: a rollback one of whose restore steps failed returns success=false with
\* the failing step's error; it returns success=true only when every requested
\* restore succeeded.
C9_FailedRestoreFailsRollback ==
    rpc = "done" /\ rret.state = "returned" =>
        \A i \in 1..Len(rresults) :
            ~rresults[i].success =>
                ~rret.success /\ rret.error = rresults[i].error

Artifacts(type) ==
    {f.name : f \in {g \in localDir : g.name.gz /\ TypeOf(g.name.kind) = type}}
    \cup {o.key.name : o \in {q \in s3Bucket : q.key.type = type}}
NewestCreated(type) ==
    CHOOSE n \in Artifacts(type) : \A m \in Artifacts(type) : m.ts <= n.ts

\* C10: quickRollback runs the restore of both types, each from the artifact
\* created last among the local and remote artifacts of that type.
C10_QuickRestoresNewest ==
    opts.rollbackType = "quick" /\ rpc \in {"notify", "notifyCatch", "done"}
                                /\ rret.state # "threw" =>
        \A type \in Types :
            /\ LogOf(type) # <<>>
            /\ LogOf(type)[1].file = BackupsPath(NewestCreated(type))

\* C11: parsing the name built for a source kind, a cadence and an instant by
\* the convention <sourceKind>-<cadence>-<timestamp>.<ext>.gz gives back the
\* same source kind, cadence and timestamp (and the timestamp the same instant).
C11_FileNameRoundTrip ==
    named # NoNamed =>
        LET parsed == ParseFileName(named.fileName)
        IN  /\ parsed.sourceKind = named.kind
            /\ parsed.cadence = named.backupType
            /\ parsed.timestamp = named.timestamp
            /\ parsed.ext = (IF named.kind = Postgres THEN Sql ELSE Rdb) \o GzSuffix
            /\ ParseTimestamp(parsed.timestamp) = named.date

\* C11 witness: a redis name of the monthly cadence built in the last
\* millisecond of a year.
C11_Witness ==
    /\ named # NoNamed
    /\ named.kind = Redis
    /\ named.backupType = <<"m", "o", "n", "t", "h", "l", "y">>
    /\ named.date.ms = 999 /\ named.date.month = 12 /\ named.date.hour = 23

LastCall(r) == runCmds[r][Len(runCmds[r])]
\* run r has just left the backup step of a source whose gzip failed
CompressionFailed(r) ==
    /\ pc[r] \in {"pgUpload", "redisUpload"}
    /\ runCmds[r] # <<>>
    /\ LastCall(r) = Call("gzip", KindAt(pc[r]), FALSE)

\* C12: when the dump (or the redis copy) succeeded and the compression failed,
\* leaving no compressed file, the backup step returns a result of its source
\* with success=true and fileSize 0, not a failure.
C12_DegradedArtifact ==
    \A r \in Runs :
        CompressionFailed(r) =>
            /\ cur[r].success
            /\ cur[r].fileSize = 0
            /\ cur[r].type = TypeOf(KindAt(pc[r]))
            /\ ~Exists(localDir, cur[r].fileName)

\* C12 witness: the redis step has returned after docker cp succeeded and gzip
\* failed.
C12_Witness ==
    \E r \in Runs :
        /\ pc[r] = "redisUpload"
        /\ CompressionFailed(r)
        /\ cur[r].fileSize = 0

\* the decompress calls the rollback in progress has made for a type
Gunzips(type) ==
    {i \in 1..Len(cmdLog) : cmdLog[i].cmd = "gunzip" /\ cmdLog[i].type = type}

\* C13: once a restore has returned, the temp file its decompress step created
\* is gone, whether the restore succeeded or a later step failed.
C13_TempFileDeleted ==
    /\ rpc \in {"restoreRedis", "notify", "notifyCatch", "done"} =>
         \A i \in Gunzips("postgresql") : ~PathExists(TempSqlFile(cmdLog[i].file))
    /\ rpc \in {"notify", "notifyCatch", "done"} =>
         (Gunzips("redis") # {} => ~tmpRdb)

\* the calls of one command the rollback in progress made for a type
CallsOf(cmd, type) ==
    {i \in 1..Len(cmdLog) : cmdLog[i].cmd = cmd /\ cmdLog[i].type = type}

\* C14: in every restore the consumer stop has completed before the artifact
\* is applied, with no start in between (the artifact is never applied while
\* the consumers run), and the apply has completed before the start is issued.
C14_StopApplyStartOrder ==
    \A type \in Types :
        /\ \A j \in CallsOf("apply", type) :
             \E i \in CallsOf("stop", type) :
                /\ i < j
                /\ cmdLog[i].ok
                /\ \A k \in CallsOf("start", type) : ~(i < k /\ k < j)
        /\ \A k \in CallsOf("start", type) :
             \E j \in CallsOf("apply", type) : j < k /\ cmdLog[j].ok

\* C14 witness: a rollback that has applied and restarted both types.
C14_Witness ==
    \A type \in Types :
        \E k \in CallsOf("start", type) : cmdLog[k].ok

\* the files of the directory whose cadence is not c
OfOtherCadence(dir, c) == {f \in dir : f.name.cadence # c}
\* a step of run r that is its cleanOldBackups pass
PruneStep(r) == pc[r] = "clean" /\ pc'[r] = "notify"

\* C15: a cleanOldBackups(c) pass leaves the local files of every cadence other
\* than c exactly as they were.
C15_PruneOnlyOwnCadence ==
    [][\A r \in Runs :
         PruneStep(r) =>
           OfOtherCadence(localDir', backupType[r]) = OfOtherCadence(localDir, backupType[r])]_vars

\* The tokens cleanOldBackups searches a name for occur in it exactly when
\* they are its backupType: on the names the program builds, the substring
\* test and the comparison of the backupType field agree.
IncludesIsCadenceMatch ==
    named # NoNamed =>
        \A type \in BackupTypes : Includes(named.fileName, type) <=> type = named.backupType

\* C15 witness: an hourly pass has deleted an hourly artifact (its remote copy
\* has no local file any more) while startup artifacts are in the directory.
C15_Witness ==
    \E r \in Runs :
        /\ pc[r] = "notify"
        /\ backupType[r] = "hourly"
        /\ \E f \in localDir : f.name.cadence = "startup"
        /\ \E o \in s3Bucket : o.key.cadence = "hourly" /\ ~Exists(localDir, o.key.name)

\* C16: in a cleanOldBackups pass a file beyond the keep-count stays only if
\* its own unlink failed: a failing unlink is skipped and every other file
\* beyond the keep-count is deleted in the same pass.
C16_UnlinkFailureSkipped ==
    [][\A r \in Runs :
         PruneStep(r) =>
           LET beyond == Range(FilesToDelete(localDir, backupType[r]))
           IN  Cardinality(beyond \cap localDir') <= faults' - faults]_vars

\* the call that writes the local file of a source
WriteCmd(kind) == IF kind = "postgres" THEN "pg_dump" ELSE "docker cp"
\* a step of run r in which uploadToS3 returns
UploadStep(r) == pc[r] \in {"pgUpload", "redisUpload"} /\ pc'[r] # pc[r]
Written(r, kind) ==
    \E i \in 1..Len(runCmds[r]) : runCmds[r][i] = Call(WriteCmd(kind), kind, TRUE)

\* C17: in a backup run s3.upload is called for a source only after the local
\* write of that source succeeded; for a failed backup result no upload is
\* attempted, nothing is stored remotely and the result is returned as it was.
C17_UploadAfterLocalWrite ==
    [][\A r \in Runs :
         UploadStep(r) =>
           LET attempted == runCmds'[r] # runCmds[r]
           IN  /\ attempted =>
                    /\ Written(r, KindAt(pc[r]))
                    /\ runCmds'[r][Len(runCmds'[r])].cmd = "s3.upload"
               /\ ~cur[r].success =>
                    /\ ~attempted
                    /\ Pushed(r) = cur[r]
                    /\ s3Bucket' = s3Bucket]_vars

\* C17 witness: a run whose postgres result failed and was pushed as it was,
\* and whose redis artifact was uploaded.
C17_Witness ==
    \E r \in Runs :
        /\ Len(results[r]) = 2
        /\ results[r][1] = BackupFailure(PgFailureMsg)
        /\ results[r][2].success
        /\ results[r][2].uploaded

\* the positions in the call log of run r at which a command was called
RunCalls(r, cmd) == {i \in 1..Len(runCmds[r]) : runCmds[r][i].cmd = cmd}
SnapshotCmds == {"pg_dump", "gzip", "BGSAVE", "wait", "docker cp", "s3.upload"}

\* C18: in every backup run the prune pass comes after the postgres and the
\* redis step have both been attempted, with their uploads, whether they
\* succeeded or not; the notification is sent only after the prune pass; a run
\* that has reached its notification has pruned.
C18_SnapshotPruneReport ==
    \A r \in Runs :
        /\ \A j \in RunCalls(r, "cleanOldBackups") :
             /\ \E i \in RunCalls(r, "pg_dump") : i < j
             /\ \E i \in RunCalls(r, "BGSAVE") : i < j
             /\ Len(results[r]) = 2
             /\ \A i \in 1..Len(runCmds[r]) :
                    runCmds[r][i].cmd \in SnapshotCmds => i < j
        /\ \A k \in RunCalls(r, "sendMail") :
             \E j \in RunCalls(r, "cleanOldBackups") : j < k
        /\ pc[r] \in {"notify", "done"} => Cardinality(RunCalls(r, "cleanOldBackups")) = 1
        /\ pc[r] = "done" => Cardinality(RunCalls(r, "sendMail")) = 1

\* C18 witness: a run has pruned and reported although its redis step failed.
C18_Witness ==
    \E r \in Runs :
        /\ pc[r] = "done"
        /\ mails[r] = 1
        /\ ~results[r][2].success
        /\ RunCalls(r, "cleanOldBackups") # {}

\* a step of run r in which backupPostgreSQL returns
PostgresStep(r) == pc[r] = "pg" /\ pc'[r] = "pgUpload"

\* C19: when pg_dump fails, backupPostgreSQL returns a failure, does not call
\* gzip, and leaves the backup directory as it was: no file of the run remains.
C19_FailedDumpLeavesNoFile ==
    [][\A r \in Runs :
         PostgresStep(r) /\ runCmds'[r][Len(runCmds[r]) + 1] = Call("pg_dump", "postgres", FALSE) =>
           /\ cur'[r] = BackupFailure(PgFailureMsg)
           /\ Len(runCmds'[r]) = Len(runCmds[r]) + 1
           /\ localDir' = localDir]_vars

SaveFailed(r) == \E i \in RunCalls(r, "BGSAVE") : ~runCmds[r][i].ok
RedisGzips(r) == {i \in RunCalls(r, "gzip") : runCmds[r][i].kind = "redis"}

\* C20: in backupRedis the copy is called only after BGSAVE succeeded and the
\* wait has elapsed, and gzip only after the copy succeeded; when BGSAVE fails
\* there is no wait, no copy and no gzip, and the step returns a failure.
C20_CopyAfterSaveAndWait ==
    \A r \in Runs :
        /\ \A j \in RunCalls(r, "docker cp") :
             \E i \in RunCalls(r, "BGSAVE"), w \in RunCalls(r, "wait") :
                runCmds[r][i].ok /\ i < w /\ w < j
        /\ \A g \in RedisGzips(r) :
             \E j \in RunCalls(r, "docker cp") : runCmds[r][j].ok /\ j < g
        /\ SaveFailed(r) =>
             /\ pc[r] # "redisWait"
             /\ RunCalls(r, "wait") \cup RunCalls(r, "docker cp") \cup RedisGzips(r) = {}
             /\ pc[r] = "redisUpload" => cur[r] = BackupFailure(RedisFailureMsg)
             /\ pc[r] \in {"clean", "notify", "done"} =>
                    results[r][2] = BackupFailure(RedisFailureMsg)

\* C20 witness: backupRedis has returned a failure right after a failed BGSAVE.
C20_Witness ==
    \E r \in Runs :
        /\ pc[r] = "redisUpload"
        /\ LastCall(r) = Call("BGSAVE", "redis", FALSE)
        /\ cur[r] = BackupFailure(RedisFailureMsg)

\* the compressed files of the directory of the startup cadence, which has no
\* retention entry
StartupArtifacts(dir) == {f \in dir : f.name.cadence = "startup" /\ f.name.gz}

\* C28: a cleanOldBackups pass for a cadence without retention entry (startup)
\* leaves the backup directory as it was, and no step ever removes a startup
\* artifact: they only accumulate.
C28_NoRetentionNoDeletion ==
    [][/\ \A r \in Runs :
            PruneStep(r) /\ backupType[r] = "startup" => localDir' = localDir
       /\ Names(StartupArtifacts(localDir)) \subseteq Names(StartupArtifacts(localDir'))]_vars

\* C28 witness: after a startup pass more startup artifacts are in the
\* directory than any cadence with a retention entry may keep.
C28_Witness ==
    \E r \in Runs :
        /\ pc[r] = "notify"
        /\ backupType[r] = "startup"
        /\ Cardinality(StartupArtifacts(localDir)) > KeepHourly

\* C29 as stated: in the listing quickRollback has just taken, every compressed
\* file of the backup directory and every key of the bucket appears with the
\* type of the source kind that produced it (postgres as 'postgresql', redis
\* as 'redis'), and no uncompressed file is listed.
C29_EveryArtifactListed ==
    rpc = "listed" =>
        /\ \A f \in localDir : f.name.gz =>
              \E b \in Range(backups.local) :
                  b.filename = f.name /\ b.type = TypeOf(f.name.kind)
        /\ \A o \in s3Bucket :
              \E b \in Range(backups.s3) :
                  b.key = o.key /\ b.type = TypeOf(o.key.name.kind)
        /\ \A b \in Range(backups.local \o backups.s3) : b.filename.gz

\* run r is between its entry and its return
InProgress(r) == pc[r] \notin {"idle", "done"}
\* run r is in progress and waits at an await
Suspended(r) == InProgress(r) /\ ~Holding(r)

\* C23: backup runs are not mutually excluded: whenever a run is suspended at
\* an await and no run holds the thread, runBackups can be entered again, for
\* every backupType.
C23_RunsNotExcluded ==
    \A r \in Overlapping :
        /\ pc[r] = "idle"
        /\ ops < MaxOps
        /\ \E q \in Runs \ {r} : Suspended(q)
        /\ \A q \in Runs \ {r} : ~Holding(q)
        => \A c \in Cadences : ENABLED StartRun(r, c)

\* C23 witness: two runs in progress at once, each with a file of its own in
\* the one backup directory, one of them about to list that directory for its
\* prune pass.
C23_Witness ==
    /\ InProgress(1) /\ InProgress(2)
    /\ pc[1] = "clean"
    /\ Written(1, "postgres") /\ Written(2, "postgres")
    /\ \E f, g \in localDir : f.name.kind = "postgres" /\ g.name.kind = "postgres" /\ f # g

\* the names a step of run r writes into the backup directory
WritesLocal(r) ==
    IF PostgresStep(r) /\ localDir' # localDir
    THEN {FileName("postgres", backupType[r], now, gz) : gz \in BOOLEAN}
    ELSE IF pc[r] = "redisWait" /\ pc'[r] = "redisUpload" /\ localDir' # localDir
    THEN {FileName("redis", backupType[r], cur[r].timestamp, gz) : gz \in BOOLEAN}
    ELSE {}
Keys(bucket) == {o.key : o \in bucket}

\* C24: no two backup attempts write the same local file name or the same
\* remote key, however the runs interleave: a step that writes a file finds no
\* file of that name, compressed or not, and no key with it; a step that
\* uploads finds no object under its key.
C24_NamesAndKeysUnique ==
    [][\A r \in Runs :
         /\ \A n \in WritesLocal(r) :
               /\ ~Exists(localDir, n)
               /\ \A k \in Keys(s3Bucket) : k.name # n
         /\ UploadStep(r) /\ s3Bucket' # s3Bucket => S3Key(cur[r]) \notin Keys(s3Bucket)]_vars

\* C24 witness: two overlapping runs of the same backupType have each written
\* their relational artifact.
C24_Witness ==
    /\ InProgress(1) /\ InProgress(2)
    /\ backupType[1] = backupType[2]
    /\ \E f, g \in localDir :
          /\ f.name.kind = "postgres" /\ g.name.kind = "postgres"
          /\ f.name.cadence = backupType[1] /\ g.name.cadence = backupType[1]
          /\ f.name.ts # g.name.ts

\* C30: in the simulated metrics dailyRevenue is at least 1000 and
\* newSignupsToday at most 50 at the start and after every update, and no
\* update decreases apiCallsToday or newSignupsToday.
C30_MetricsLimits ==
    /\ businessMetrics.dailyRevenue >= 1000
    /\ businessMetrics.newSignupsToday <= 50
    /\ [][/\ businessMetrics'.dailyRevenue >= 1000
          /\ businessMetrics'.newSignupsToday <= 50
          /\ businessMetrics'.apiCallsToday >= businessMetrics.apiCallsToday
          /\ businessMetrics'.newSignupsToday >= businessMetrics.newSignupsToday]_vars

\* C30 witness: both limits are met after enough updates for each to have
\* been exceeded (16 decreases of the revenue, 28 signups).
C30_Witness ==
    /\ mticks >= 28
    /\ businessMetrics.dailyRevenue = 1000
    /\ businessMetrics.newSignupsToday = 50
    /\ businessMetrics.apiCallsToday > InitialMetrics.apiCallsToday

\* the instants runBackups(c) was called at by the scheduler
FiredAt(c) == {f.at : f \in {g \in fired : g.cadence = c}}
\* the time of day of the local clock at instant t
LocalTimeOfDay(t) == (t + tz) % DailyInterval
\* the next 02:00 of the local clock at or after the start
FirstTwoAM ==
    IF LocalTimeOfDay(boot) <= TwoAM
    THEN boot + (TwoAM - LocalTimeOfDay(boot))
    ELSE boot + (DailyInterval - LocalTimeOfDay(boot)) + TwoAM

\* C21: the first daily backup fires at the next 02:00 of the wall clock
\* (today's if the start is before it, otherwise tomorrow's), never earlier,
\* and the later ones follow 24 hours apart.
C21_DailyAtTwoAM ==
    \A t \in FiredAt("daily") :
        /\ t >= FirstTwoAM
        /\ (t - FirstTwoAM) % DailyInterval = 0
        /\ t > FirstTwoAM => t - DailyInterval \in FiredAt("daily")

\* the wall-clock hour instant t lies in
LocalHour(t) == (t + tz) \div HourMs

\* C22: a weekly backup is fired only on a Sunday between 03:00 and 04:00 of
\* the wall clock and a monthly one only on the 1st between 04:00 and 05:00,
\* and no such hour sees two backups of its cadence.
C22_PolledCadences ==
    /\ \A t \in FiredAt("weekly") : GetDay(t) = 0 /\ GetHours(t) = 3
    /\ \A t \in FiredAt("monthly") : GetDate(t) = 1 /\ GetHours(t) = 4
    /\ \A c \in {"weekly", "monthly"} :
          \A t, u \in FiredAt(c) : LocalHour(t) = LocalHour(u) => t = u

\* C22 witness: a weekly backup on each of two Sundays and a monthly one have
\* been fired.
C22_Witness ==
    /\ Cardinality(FiredAt("weekly")) = 2
    /\ FiredAt("monthly") # {}

\* C29: in the listing quickRollback has just taken, every compressed file of
\* the backup directory appears with the type of the source kind that produced
\* it; the remote list is either empty (the bucket query failed) or holds every
\* key of the bucket, each with the type of its source kind; no uncompressed
\* file is listed.
C29_ArtifactsListedByKind ==
    rpc = "listed" =>
        /\ \A f \in localDir : f.name.gz =>
              \E b \in Range(backups.local) :
                  b.filename = f.name /\ b.type = TypeOf(f.name.kind)
        /\ \/ backups.s3 = <<>>
           \/ \A o \in s3Bucket :
                 \E b \in Range(backups.s3) :
                     b.key = o.key /\ b.type = TypeOf(o.key.name.kind)
        /\ \A b \in Range(backups.local \o backups.s3) :
              b.filename.gz /\ b.type = TypeOf(b.filename.kind)

\* C29 witness: a listing with both types among its local and among its remote
\* entries, taken while an uncompressed dump lies in the directory.
C29_Witness ==
    /\ rpc = "listed"
    /\ \E f \in localDir : ~f.name.gz
    /\ \A type \in Types :
          /\ \E b \in Range(backups.local) : b.type = type
          /\ \E b \in Range(backups.s3) : b.type = type

\* the pipeline has been entered
InPipeline == dpc \in {"staging", "production", "notify", "done"}
\* the positions in dlog of what the deployment to env executed
Ran(environment) == {i \in 1..Len(dlog) : dlog[i].env = environment}

\* C25: in the pipeline a production step is executed only after the staging
\* deployment returned success, all staging steps before it; when staging
\* fails, no production step is executed, no production result is set and the
\* results carry the pipeline error.
C25_ProductionAfterStaging ==
    InPipeline =>
        /\ Ran("production") # {} =>
              /\ Success(dresults.staging)
              /\ \A i \in Ran("staging"), j \in Ran("production") : i < j
        /\ dresults.staging # Undefined /\ ~Success(dresults.staging) =>
              /\ Ran("production") = {}
              /\ dresults.production = Undefined
              /\ dresults.pipelineError # None
              /\ dpc \in {"notify", "done"}

\* C25 witness: the pipeline has ended after a failed staging deployment.
C25_Witness ==
    /\ dpc = "done"
    /\ Ran("staging") # {}
    /\ ~Success(dresults.staging)
    /\ dresults.pipelineError # None

\* what the deployment to env executed, in order, and what it returned
ExecutedIn(environment) == SelectSeq(dlog, LAMBDA c : c.env = environment)
StepsIn(environment) == SelectSeq(ExecutedIn(environment), LAMBDA c : c.step # "rollback")
Rollbacks(environment) ==
    {i \in 1..Len(ExecutedIn(environment)) : ExecutedIn(environment)[i].step = "rollback"}
ResultOf(environment) ==
    IF dpc = "manual"
    THEN (IF dret.value.environment = environment THEN dret.value ELSE Undefined)
    ELSE dresults[environment]
StepOrder == CommandSteps \o <<"health_check">>

\* C26: a deployment runs its steps in the order git pull, environment setup,
\* image build, stop, start, health check; a failed step other than the stop
\* is the last step run, is followed by exactly one emergency rollback command
\* and gives success=false; a failed stop does not end the deployment;
\* success=true is returned only after all six steps with every endpoint
\* healthy, and then no rollback command is run.
C26_DeploymentSteps ==
    \A environment \in Environments :
        LET steps == StepsIn(environment)
            all == ExecutedIn(environment)
            result == ResultOf(environment)
        IN  /\ Len(steps) <= Len(StepOrder)
            /\ \A i \in 1..Len(steps) : steps[i].step = StepOrder[i]
            /\ \A i \in Rollbacks(environment) : i = Len(all) /\ i > 1
            /\ \A i \in 1..Len(steps) :
                  ~steps[i].success =>
                      IF steps[i].step = "services_stop" THEN Len(steps) > i
                      ELSE /\ i = Len(steps)
                           /\ Cardinality(Rollbacks(environment)) = 1
                           /\ result # Undefined /\ ~Success(result)
            /\ Success(result) =>
                  /\ Len(steps) = Len(StepOrder)
                  /\ \A e \in HealthEndpoints : result.healthCheck[e] = "healthy"
                  /\ Rollbacks(environment) = {}
            /\ all # <<>> => result # Undefined

\* C26 witness: staging succeeded although its stop step failed, and
\* production was rolled back after a failed health check.
C26_Witness ==
    /\ dpc = "notify"
    /\ Success(dresults.staging)
    /\ \E i \in 1..Len(StepsIn("staging")) :
          StepsIn("staging")[i].step = "services_stop" /\ ~StepsIn("staging")[i].success
    /\ ~Success(dresults.production)
    /\ Len(StepsIn("production")) = Len(StepOrder)
    /\ Rollbacks("production") # {}

\* the positions in dlog of the sendMail calls
SendMails == {i \in 1..Len(dlog) : dlog[i].step = "sendMail"}

\* C27: a pipeline run that has ended has called sendMail exactly once, after
\* everything its deployments executed, with the subject of a failure
\* whenever staging or production did not succeed; before its end no
\* notification is sent.
C27_OneNotification ==
    /\ dpc # "done" => dmails = <<>> /\ SendMails = {}
    /\ dpc = "done" =>
          /\ Len(dmails) = 1
          /\ SendMails = {Len(dlog)}
          /\ dret.state \in {"returned", "rejected"}
          /\ ~Success(dresults.staging) \/ ~Success(dresults.production)
                => dmails[1].subject = "failed"

\* C27 witness: the pipeline has ended with a failure subject after staging
\* succeeded and production did not.
C27_Witness ==
    /\ dpc = "done"
    /\ Success(dresults.staging)
    /\ dresults.production # Undefined /\ ~Success(dresults.production)
    /\ dmails[1].subject = "failed"

====
